---- MODULE Spec2Model ----
(***************************************************************************)
(* Model of the form / source-record service (Fastify routes over Prisma). *)
(*                                                                         *)
(*   src/src/routes/form.ts            form routes (list, get, create,     *)
(*                                     list record ids, update)            *)
(*   src/src/routes/source_record.ts   source-record routes (get, list,    *)
(*                                     create)                             *)
(*                                                                         *)
(* The database is three tables (Form, SourceRecord, SourceData) kept as   *)
(* sequences of rows in insertion order.  Generated uuids are modelled as  *)
(* fresh naturals, timestamps are left out.  A JSON object is the sequence *)
(* of its own (key, value) entries in Object.entries order.                *)
(***************************************************************************)
EXTENDS Integers, Sequences, FiniteSets, TLC

VARIABLES forms, sourceRecords, sourceData, inflight, reply

vars == <<forms, sourceRecords, sourceData, inflight, reply>>

(***************************************************************************)
(* Bounds                                                                  *)
(***************************************************************************)
MaxForms == 2
MaxRecords == 1
MaxRaceRecords == 2
MaxFields == 2
MaxAnswers == 2

(***************************************************************************)
(* Input alphabets                                                         *)
(***************************************************************************)
FieldIds == {"f1", "f2", "valueOf"}
Questions == {"Q1", "Q2"}
Answers == {"", "a"}
Names == {"N1", "N2"}

\* Property names every JSON-parsed object inherits from Object.prototype
\* (restricted to the ones that occur among FieldIds).
ObjectPrototypeKeys == {"valueOf"}

\* ids a caller may name: every id the tables can hold plus one that is
\* never allocated.
FormIdInputs == 1..(MaxForms + 1)
RecordIdInputs == 1..(MaxRecords + 1)

\* Handlers of POST /source-record that can be running at a time.
Clients == {1}

\* FormInput.fields values: type, question and an optional required flag.
FieldDefs ==
    {[type |-> "text", question |-> q] : q \in Questions}
    \cup {[type |-> "text", question |-> q, required |-> r] :
              q \in Questions, r \in BOOLEAN}

\* Sequences without repetition over S, of length at most n.
InjSeqs(S, n) ==
    UNION {{s \in [1..k -> S] : \A i, j \in 1..k : i # j => s[i] # s[j]} :
              k \in 0..n}

\* JSON objects with keys from K and values from V, at most n entries.
Objects(K, V, n) ==
    UNION {{[i \in DOMAIN ks |-> [key |-> ks[i], value |-> vs[i]]] :
               vs \in [DOMAIN ks -> V]} : ks \in InjSeqs(K, n)}

Schemas == Objects(FieldIds, FieldDefs, MaxFields)
AnswerMaps == Objects(FieldIds, Answers, MaxAnswers)

\* The smaller alphabets of the whole-service specification.
\* Two versions of a form: in the second, f1 is gone and f2 has a new
\* question and is required.
SysSchemas ==
    {<<[key |-> "f1",
        value |-> [type |-> "text", question |-> "Q1", required |-> TRUE]],
       [key |-> "f2", value |-> [type |-> "text", question |-> "Q2"]]>>,
     <<[key |-> "f2",
        value |-> [type |-> "text", question |-> "Q1", required |-> TRUE]]>>}

\* Answer maps over f1 and f2; the two-key map lists f2 first, against the
\* order of the first schema.
SysAnswerMaps ==
    {<<>>,
     <<[key |-> "f1", value |-> "a"]>>,
     <<[key |-> "f2", value |-> "a"]>>,
     <<[key |-> "f2", value |-> "a"], [key |-> "f1", value |-> "a"]>>}

(***************************************************************************)
(* JavaScript object access                                                *)
(***************************************************************************)
Keys(obj) == {obj[i].key : i \in DOMAIN obj}

HasOwn(obj, k) == k \in Keys(obj)

OwnValue(obj, k) == obj[CHOOSE i \in DOMAIN obj : obj[i].key = k].value

\* obj[k]: the own property, else the property inherited from
\* Object.prototype (a function), else undefined.
JsGet(obj, k) ==
    IF HasOwn(obj, k) THEN [t |-> "own", v |-> OwnValue(obj, k)]
    ELSE IF k \in ObjectPrototypeKeys THEN [t |-> "function"]
    ELSE [t |-> "undefined"]

\* Truthiness of body.sourceData[fieldId], whose own values are strings.
Truthy(r) == r.t = "function" \/ (r.t = "own" /\ r.v # "")

\* Variant: a field is required unless its flag is false
\* (field.required !== false).
FieldRequiredDefaultTrue(field) ==
    ~("required" \in DOMAIN field /\ field.required = FALSE)

\* Truthiness of field.required (boolean or undefined).
FieldRequired(field) == "required" \in DOMAIN field /\ field.required

(***************************************************************************)
(* Prisma queries                                                          *)
(***************************************************************************)
FormExists(id) == \E i \in DOMAIN forms : forms[i].id = id

FindForm(id) == forms[CHOOSE i \in DOMAIN forms : forms[i].id = id]

RecordExists(id) == \E i \in DOMAIN sourceRecords : sourceRecords[i].id = id

FindRecord(id) ==
    sourceRecords[CHOOSE i \in DOMAIN sourceRecords : sourceRecords[i].id = id]

\* include: { sourceData: true }: the record with its rows, in table order.
WithSourceData(rec, rows) ==
    LET Mine(row) == row.sourceRecordId = rec.id
    IN  [id |-> rec.id, formId |-> rec.formId,
         sourceData |-> SelectSeq(rows, Mine)]

IncludeSourceData(rec) == WithSourceData(rec, sourceData)

(***************************************************************************)
(* Initial state: empty tables, no request in flight, nothing replied.     *)
(***************************************************************************)
NoReply == [op |-> "none"]
Idle == [pc |-> "idle"]

Init ==
    /\ forms = <<>>
    /\ sourceRecords = <<>>
    /\ sourceData = <<>>
    /\ inflight = [c \in Clients |-> Idle]
    /\ reply = NoReply

(***************************************************************************)
(* Replies.  A handler either sends its result or throws an ApiError that  *)
(* the error handler turns into a reply carrying its status and message.   *)
(* A reply is kept together with the request (params or body) it answers.  *)
(***************************************************************************)
Send(op, req, status, data) ==
    [op |-> op, req |-> req, status |-> status, data |-> data]

Throw(op, req, message) ==
    [op |-> op, req |-> req, status |-> 400, message |-> message]

\* The reply just sent reaches its caller.  A handler step runs when no
\* reply is pending: this orders the steps of the handlers without excluding
\* any order of their database operations.
Deliver ==
    /\ reply # NoReply
    /\ reply' = NoReply
    /\ UNCHANGED <<forms, sourceRecords, sourceData, inflight>>

(***************************************************************************)
(* Form routes                                                             *)
(***************************************************************************)
\* GET /form
GetForms ==
    /\ reply = NoReply
    /\ reply' = Send("getForms", 0, 200, forms)
    /\ UNCHANGED <<forms, sourceRecords, sourceData, inflight>>

\* GET /form/:id
GetForm(id) ==
    /\ reply = NoReply
    /\ reply' = IF FormExists(id)
                THEN Send("getForm", id, 200, FindForm(id))
                ELSE Throw("getForm", id, "failed to fetch form")
    /\ UNCHANGED <<forms, sourceRecords, sourceData, inflight>>

\* Variant: a field given without a required flag is stored with
\* required false.
FormCreateDefaultRequired(table, name, fields) ==
    Append(table,
           [id |-> Len(table) + 1, name |-> name,
            fields |->
              [i \in DOMAIN fields |->
                 [key |-> fields[i].key,
                  value |->
                    IF "required" \in DOMAIN fields[i].value
                    THEN fields[i].value
                    ELSE [type |-> fields[i].value.type,
                          question |-> fields[i].value.question,
                          required |-> FALSE]]]])

\* prisma.form.create
FormCreate(table, name, fields) ==
    Append(table, [id |-> Len(table) + 1, name |-> name, fields |-> fields])

\* POST /form
PostForm(name, fields) ==
    /\ reply = NoReply
    /\ Len(forms) < MaxForms
    /\ forms' = FormCreate(forms, name, fields)
    /\ reply' = Send("postForm", [name |-> name, fields |-> fields], 201,
                     forms'[Len(forms')])
    /\ UNCHANGED <<sourceRecords, sourceData, inflight>>

\* Variant: findMany without the where clause.
GetFormSourceRecordAll(id) ==
    /\ reply = NoReply
    /\ reply' = Send("getFormSourceRecord", id, 200,
                     [i \in DOMAIN sourceRecords |-> [id |-> sourceRecords[i].id]])
    /\ UNCHANGED <<forms, sourceRecords, sourceData, inflight>>

\* GET /form/:id/source-record
GetFormSourceRecord(id) ==
    LET OfForm(rec) == rec.formId = id
        sel == SelectSeq(sourceRecords, OfForm)
    IN  /\ reply = NoReply
        /\ reply' = Send("getFormSourceRecord", id, 200,
                         [i \in DOMAIN sel |-> [id |-> sel[i].id]])
        /\ UNCHANGED <<forms, sourceRecords, sourceData, inflight>>

\* FormUpdate that patches: fields of the old mapping that the new one does
\* not name survive.
FormUpdateMerge(table, id, name, fields) ==
    [i \in DOMAIN table |->
        IF table[i].id = id
        THEN LET Dropped(e) == \A j \in DOMAIN fields : fields[j].key # e.key
             IN  [id |-> table[i].id, name |-> name,
                  fields |-> fields \o SelectSeq(table[i].fields, Dropped)]
        ELSE table[i]]

\* prisma.form.update: the row with the given id gets the new name and
\* fields, every other row and column is kept.
FormUpdate(table, id, name, fields) ==
    [i \in DOMAIN table |->
        IF table[i].id = id
        THEN [id |-> table[i].id, name |-> name, fields |-> fields]
        ELSE table[i]]

\* PutForm whose update also drops the answer rows of the form's records.
PutFormCascade(id, name, fields) ==
    /\ reply = NoReply
    /\ IF FormExists(id)
       THEN /\ forms' = FormUpdate(forms, id, name, fields)
            /\ reply' = Send("putForm",
                   [id |-> id, name |-> name, fields |-> fields], 200,
                   forms'[CHOOSE i \in DOMAIN forms' : forms'[i].id = id])
            /\ LET Kept(row) ==
                       \A i \in DOMAIN sourceRecords :
                          sourceRecords[i].id = row.sourceRecordId
                             => sourceRecords[i].formId # id
               IN  sourceData' = SelectSeq(sourceData, Kept)
       ELSE /\ reply' = Throw("putForm",
                   [id |-> id, name |-> name, fields |-> fields],
                   "failed to update form")
            /\ UNCHANGED <<forms, sourceData>>
    /\ UNCHANGED <<sourceRecords, inflight>>

\* PutForm whose update deletes the records of the form together with
\* their answer rows.
PutFormDropRecords(id, name, fields) ==
    /\ reply = NoReply
    /\ IF FormExists(id)
       THEN /\ forms' = FormUpdate(forms, id, name, fields)
            /\ reply' = Send("putForm",
                   [id |-> id, name |-> name, fields |-> fields], 200,
                   forms'[CHOOSE i \in DOMAIN forms' : forms'[i].id = id])
            /\ LET OfOtherForm(rec) == rec.formId # id
                   Kept(row) ==
                       \A i \in DOMAIN sourceRecords :
                          sourceRecords[i].id = row.sourceRecordId
                             => sourceRecords[i].formId # id
               IN  /\ sourceRecords' = SelectSeq(sourceRecords, OfOtherForm)
                   /\ sourceData' = SelectSeq(sourceData, Kept)
       ELSE /\ reply' = Throw("putForm",
                   [id |-> id, name |-> name, fields |-> fields],
                   "failed to update form")
            /\ UNCHANGED <<forms, sourceRecords, sourceData>>
    /\ UNCHANGED inflight

\* PUT /form/:id
PutForm(id, name, fields) ==
    /\ reply = NoReply
    /\ IF FormExists(id)
       THEN /\ forms' = FormUpdate(forms, id, name, fields)
            /\ reply' = Send("putForm",
                   [id |-> id, name |-> name, fields |-> fields], 200,
                   forms'[CHOOSE i \in DOMAIN forms' : forms'[i].id = id])
       ELSE /\ reply' = Throw("putForm",
                   [id |-> id, name |-> name, fields |-> fields],
                   "failed to update form")
            /\ UNCHANGED forms
    /\ UNCHANGED <<sourceRecords, sourceData, inflight>>

(***************************************************************************)
(* Source-record routes                                                    *)
(***************************************************************************)
\* GetSourceRecord without the include.
GetSourceRecordNoInclude(id) ==
    /\ reply = NoReply
    /\ reply' = IF RecordExists(id)
                THEN Send("getSourceRecord", id, 200,
                          WithSourceData(FindRecord(id), <<>>))
                ELSE Throw("getSourceRecord", id,
                           "failed to fetch source record")
    /\ UNCHANGED <<forms, sourceRecords, sourceData, inflight>>

\* GET /source-record/:id
GetSourceRecord(id) ==
    /\ reply = NoReply
    /\ reply' = IF RecordExists(id)
                THEN Send("getSourceRecord", id, 200,
                          IncludeSourceData(FindRecord(id)))
                ELSE Throw("getSourceRecord", id,
                           "failed to fetch source record")
    /\ UNCHANGED <<forms, sourceRecords, sourceData, inflight>>

\* GetSourceRecords that looks the form up first and throws when it is
\* missing.
GetSourceRecordsOrThrow(formId) ==
    LET OfForm(rec) == rec.formId = formId
        sel == SelectSeq(sourceRecords, OfForm)
    IN  /\ reply = NoReply
        /\ reply' = IF FormExists(formId)
                    THEN Send("getSourceRecords", formId, 200,
                              [i \in DOMAIN sel |-> IncludeSourceData(sel[i])])
                    ELSE Throw("getSourceRecords", formId,
                               "failed to fetch source records")
        /\ UNCHANGED <<forms, sourceRecords, sourceData, inflight>>

\* GET /source-record?formId=
GetSourceRecords(formId) ==
    LET OfForm(rec) == rec.formId = formId
        sel == SelectSeq(sourceRecords, OfForm)
    IN  /\ reply = NoReply
        /\ reply' = Send("getSourceRecords", formId, 200,
                         [i \in DOMAIN sel |-> IncludeSourceData(sel[i])])
        /\ UNCHANGED <<forms, sourceRecords, sourceData, inflight>>

\* The required-field loop: the message of the first ApiError it throws,
\* "" when it runs to the end.
RECURSIVE ValidateRequired(_, _)
ValidateRequired(formFields, answers) ==
    IF formFields = <<>> THEN ""
    ELSE LET fieldId == Head(formFields).key
             field == Head(formFields).value
         IN  IF FieldRequired(field) /\ ~Truthy(JsGet(answers, fieldId))
             THEN "Missing required field: " \o field.question
             ELSE ValidateRequired(Tail(formFields), answers)

\* One element of the sourceData.create array: the callback of the map
\* over Object.entries(body.sourceData).  formFields[fieldId] is an own
\* field definition, an inherited function (whose .question is undefined)
\* or undefined (reading .question of it throws a TypeError).
SourceDataRow(formFields, entry) ==
    LET f == JsGet(formFields, entry.key)
    IN  CASE f.t = "own" ->
               [t |-> "row", question |-> f.v.question, answer |-> entry.value]
          [] f.t = "function" -> [t |-> "noQuestion"]
          [] OTHER -> [t |-> "TypeError"]

\* SourceDataCreate walking the schema's fields instead of the answer map's
\* entries.
SourceDataCreateSchemaOrder(formFields, answers) ==
    LET Answered(f) == HasOwn(answers, f.key)
        fs == SelectSeq(formFields, Answered)
    IN  IF \A j \in DOMAIN answers : HasOwn(formFields, answers[j].key)
        THEN [ok |-> TRUE,
              rows |-> [i \in DOMAIN fs |->
                          [question |-> fs[i].value.question,
                           answer |-> OwnValue(answers, fs[i].key)]]]
        ELSE [ok |-> FALSE]

\* SourceDataCreate that checks the lookup and leaves out the keys the
\* schema does not define.
SourceDataCreateKnownOnly(formFields, answers) ==
    LET Known(e) == HasOwn(formFields, e.key)
        kept == SelectSeq(answers, Known)
    IN  [ok |-> TRUE,
         rows |-> [i \in DOMAIN kept |->
                     [question |-> OwnValue(formFields, kept[i].key).question,
                      answer |-> kept[i].value]]]

\* SourceDataCreate with entries whose answer is empty left out.
SourceDataCreateSkipEmpty(formFields, answers) ==
    LET NonEmpty(e) == e.value # ""
        kept == SelectSeq(answers, NonEmpty)
        rows == [i \in DOMAIN kept |-> SourceDataRow(formFields, kept[i])]
    IN  IF \A i \in DOMAIN rows : rows[i].t = "row"
        THEN [ok |-> TRUE,
              rows |-> [i \in DOMAIN rows |->
                          [question |-> rows[i].question,
                           answer |-> rows[i].answer]]]
        ELSE [ok |-> FALSE]

\* SourceData.question is a non-null text column (the persisted shape of an
\* answer is {prompt, answer}, both strings): Prisma rejects a create whose
\* question is undefined.
QuestionRequired == TRUE

\* The argument of sourceData.create, and whether building it threw or
\* Prisma rejects it.
SourceDataCreate(formFields, answers) ==
    LET rows == [i \in DOMAIN answers |-> SourceDataRow(formFields, answers[i])]
    IN  IF \A i \in DOMAIN rows :
              \/ rows[i].t = "row"
              \/ rows[i].t = "noQuestion" /\ ~QuestionRequired
        THEN [ok |-> TRUE,
              rows |-> [i \in DOMAIN rows |->
                          [question |-> IF rows[i].t = "row"
                                        THEN rows[i].question ELSE "null",
                           answer |-> answers[i].value]]]
        ELSE [ok |-> FALSE]

\* PostSourceRecordFindForm with findUnique and "form?.fields ?? {}": a
\* missing form does not end the request.
PostSourceRecordFindFormNoThrow(c, body) ==
    /\ reply = NoReply
    /\ inflight[c] = Idle
    /\ inflight' = [inflight EXCEPT ![c] =
          [pc |-> "create", body |-> body,
           formFields |-> IF FormExists(body.formId)
                          THEN FindForm(body.formId).fields ELSE <<>>]]
    /\ UNCHANGED <<forms, sourceRecords, sourceData, reply>>

\* POST /source-record, up to the first await: prisma.form.findUniqueOrThrow
\* resolves with the form as stored now, or rejects.
\* Variant: body is a variable shared by the invocations, so a later
\* request overwrites the answer map of the ones still in flight.
PostSourceRecordFindFormShared(c, body) ==
    /\ reply = NoReply
    /\ inflight[c] = Idle
    /\ IF FormExists(body.formId)
       THEN /\ inflight' =
                  [d \in DOMAIN inflight |->
                     IF d = c
                     THEN [pc |-> "create", body |-> body,
                           formFields |-> FindForm(body.formId).fields]
                     ELSE IF inflight[d].pc = "create"
                     THEN [inflight[d] EXCEPT !.body = body]
                     ELSE inflight[d]]
            /\ UNCHANGED reply
       ELSE /\ reply' = Throw("postSourceRecord", body, "failed to create source record")
            /\ UNCHANGED inflight
    /\ UNCHANGED <<forms, sourceRecords, sourceData>>

PostSourceRecordFindForm(c, body) ==
    /\ reply = NoReply
    /\ inflight[c] = Idle
    /\ IF FormExists(body.formId)
       THEN /\ inflight' = [inflight EXCEPT ![c] =
                   [pc |-> "create", body |-> body,
                    formFields |-> FindForm(body.formId).fields]]
            /\ UNCHANGED reply
       ELSE /\ reply' = Throw("postSourceRecord", body,
                              "failed to create source record")
            /\ UNCHANGED inflight
    /\ UNCHANGED <<forms, sourceRecords, sourceData>>

\* NestedCreate as two writes of which the second stops after one row.
NestedCreatePartial(formId, rows) ==
    LET id == Len(sourceRecords) + 1
    IN  /\ sourceRecords' = Append(sourceRecords, [id |-> id, formId |-> formId])
        /\ sourceData' = sourceData \o
               [i \in DOMAIN rows \cap {1} |->
                   [sourceRecordId |-> id, question |-> rows[i].question,
                    answer |-> rows[i].answer]]

\* prisma.sourceRecord.create with nested sourceData.create: one
\* transaction inserting the record and all of its rows.
NestedCreate(formId, rows) ==
    LET id == Len(sourceRecords) + 1
    IN  /\ sourceRecords' = Append(sourceRecords, [id |-> id, formId |-> formId])
        /\ sourceData' = sourceData \o
               [i \in DOMAIN rows |->
                   [sourceRecordId |-> id, question |-> rows[i].question,
                    answer |-> rows[i].answer]]

\* POST /source-record, after the form was read: validation, then the
\* nested create.
\* Variant: the rows are built from the schema stored at the time of the
\* write, the required-field check from the schema read at line 274.
PostSourceRecordCreateRelookup(c) ==
    /\ reply = NoReply
    /\ inflight[c].pc = "create"
    /\ LET body == inflight[c].body
           formFields == inflight[c].formFields
           missing == ValidateRequired(formFields, body.sourceData)
           create == SourceDataCreate(FindForm(body.formId).fields, body.sourceData)
       IN  IF missing # ""
           THEN /\ reply' = Throw("postSourceRecord", body, missing)
                /\ UNCHANGED <<sourceRecords, sourceData>>
           ELSE IF ~create.ok
           THEN /\ reply' = Throw("postSourceRecord", body, "failed to create source record")
                /\ UNCHANGED <<sourceRecords, sourceData>>
           ELSE /\ NestedCreate(body.formId, create.rows)
                /\ reply' = Send("postSourceRecord", body, 201,
                       WithSourceData(sourceRecords'[Len(sourceRecords')], sourceData'))
    /\ inflight' = [inflight EXCEPT ![c] = Idle]
    /\ UNCHANGED forms

\* Variant: the catch logs the TypeError of the row-building map and
\* returns, so the invocation ends without a reply.
PostSourceRecordCreateSwallow(c) ==
    /\ reply = NoReply
    /\ inflight[c].pc = "create"
    /\ LET body == inflight[c].body
           formFields == inflight[c].formFields
           missing == ValidateRequired(formFields, body.sourceData)
           create == SourceDataCreate(formFields, body.sourceData)
       IN  IF missing # ""
           THEN /\ reply' = Throw("postSourceRecord", body, missing)
                /\ UNCHANGED <<sourceRecords, sourceData>>
           ELSE IF ~create.ok
           THEN UNCHANGED <<reply, sourceRecords, sourceData>>
           ELSE /\ NestedCreate(body.formId, create.rows)
                /\ reply' = Send("postSourceRecord", body, 201,
                       WithSourceData(sourceRecords'[Len(sourceRecords')], sourceData'))
    /\ inflight' = [inflight EXCEPT ![c] = Idle]
    /\ UNCHANGED forms

\* Variant: the SourceRecord row is created before the rows are built, in
\* a call of its own, so a TypeError of the map leaves the record behind.
PostSourceRecordCreateWriteFirst(c) ==
    /\ reply = NoReply
    /\ inflight[c].pc = "create"
    /\ LET body == inflight[c].body
           formFields == inflight[c].formFields
           missing == ValidateRequired(formFields, body.sourceData)
           create == SourceDataCreate(formFields, body.sourceData)
       IN  IF missing # ""
           THEN /\ reply' = Throw("postSourceRecord", body, missing)
                /\ UNCHANGED <<sourceRecords, sourceData>>
           ELSE IF ~create.ok
           THEN /\ sourceRecords' =
                      Append(sourceRecords,
                             [id |-> Len(sourceRecords) + 1, formId |-> body.formId])
                /\ reply' = Throw("postSourceRecord", body, "failed to create source record")
                /\ UNCHANGED sourceData
           ELSE /\ NestedCreate(body.formId, create.rows)
                /\ reply' = Send("postSourceRecord", body, 201,
                       WithSourceData(sourceRecords'[Len(sourceRecords')], sourceData'))
    /\ inflight' = [inflight EXCEPT ![c] = Idle]
    /\ UNCHANGED forms

PostSourceRecordCreate(c) ==
    /\ reply = NoReply
    /\ inflight[c].pc = "create"
    /\ LET body == inflight[c].body
           formFields == inflight[c].formFields
           missing == ValidateRequired(formFields, body.sourceData)
           create == SourceDataCreate(formFields, body.sourceData)
       IN  IF missing # ""
           THEN /\ reply' = Throw("postSourceRecord", body, missing)
                /\ UNCHANGED <<sourceRecords, sourceData>>
           ELSE IF ~create.ok
           THEN /\ reply' = Throw("postSourceRecord", body,
                                  "failed to create source record")
                /\ UNCHANGED <<sourceRecords, sourceData>>
           ELSE /\ NestedCreate(body.formId, create.rows)
                /\ reply' = Send("postSourceRecord", body, 201,
                       WithSourceData(sourceRecords'[Len(sourceRecords')],
                                      sourceData'))
    /\ inflight' = [inflight EXCEPT ![c] = Idle]
    /\ UNCHANGED forms

(***************************************************************************)
(* Specifications                                                          *)
(***************************************************************************)
\* The whole service: any request at any time, requests of the clients
\* interleaved at their awaits.  Inputs come from the Sys alphabets.
SysBodies == [formId : FormIdInputs, sourceData : SysAnswerMaps]

Next ==
    \/ GetForms
    \/ \E id \in FormIdInputs : GetForm(id)
    \/ \E name \in Names, fields \in SysSchemas : PostForm(name, fields)
    \/ \E id \in FormIdInputs : GetFormSourceRecord(id)
    \/ \E id \in FormIdInputs, name \in Names, fields \in SysSchemas :
          PutForm(id, name, fields)
    \/ \E id \in RecordIdInputs : GetSourceRecord(id)
    \/ \E formId \in FormIdInputs : GetSourceRecords(formId)
    \/ \E c \in Clients, body \in SysBodies :
          PostSourceRecordFindForm(c, body)
    \/ \E c \in Clients :
          /\ Len(sourceRecords) < MaxRecords
          /\ PostSourceRecordCreate(c)
    \/ Deliver

Spec == Init /\ [][Next]_vars

\* One submission against one stored form, for every schema and every
\* answer map of the full alphabets.
InitValidate ==
    /\ \E fields \in Schemas : forms = FormCreate(<<>>, "N1", fields)
    /\ sourceRecords = <<>>
    /\ sourceData = <<>>
    /\ inflight = [c \in Clients |-> Idle]
    /\ reply = NoReply

Bodies == [formId : 1..2, sourceData : AnswerMaps]

NextValidate ==
    \/ \E body \in Bodies :
          /\ sourceRecords = <<>>
          /\ PostSourceRecordFindForm(1, body)
    \/ PostSourceRecordCreate(1)
    \/ Deliver

SpecValidate == InitValidate /\ [][NextValidate]_vars

\* The form routes alone, from the empty database: forms are created with
\* no field or one field, with or without a required flag, and read back.
FormSchemas == Objects({"f1", "f2"}, FieldDefs, 1)

NextForms ==
    \/ \E name \in Names, fields \in FormSchemas : PostForm(name, fields)
    \/ \E id \in FormIdInputs : GetForm(id)
    \/ GetForms
    \/ Deliver

SpecForms == Init /\ [][NextForms]_vars

\* A form update racing with creates on the same form: the form starts
\* with the schema RacePre, is updated at most once, to a schema of
\* RacePosts, while up to two creates are between their form read and their
\* write.
RaceClients == {1, 2}

RacePre ==
    <<[key |-> "f1",
       value |-> [type |-> "text", question |-> "Q1", required |-> TRUE]],
      [key |-> "f2", value |-> [type |-> "text", question |-> "Q2"]]>>

\* f1 removed and f2 required with a new question; the questions of f1 and
\* f2 exchanged and the required flag moved to f2.
RacePosts ==
    {<<[key |-> "f2",
        value |-> [type |-> "text", question |-> "Q1", required |-> TRUE]]>>,
     <<[key |-> "f1", value |-> [type |-> "text", question |-> "Q2"]],
       [key |-> "f2",
        value |-> [type |-> "text", question |-> "Q1", required |-> TRUE]]>>}

InitRace ==
    /\ forms = FormCreate(<<>>, "N1", RacePre)
    /\ sourceRecords = <<>>
    /\ sourceData = <<>>
    /\ inflight = [c \in RaceClients |-> Idle]
    /\ reply = NoReply

NextRace ==
    \/ \E c \in RaceClients, answers \in SysAnswerMaps :
          PostSourceRecordFindForm(c, [formId |-> 1, sourceData |-> answers])
    \/ \E c \in RaceClients :
          /\ Len(sourceRecords) < MaxRaceRecords
          /\ PostSourceRecordCreate(c)
    \/ \E fields \in RacePosts :
          /\ FindForm(1).name = "N1"
          /\ PutForm(1, "N2", fields)
    \/ Deliver

SpecRace == InitRace /\ [][NextRace]_vars

(***************************************************************************)
(* Vocabulary of the claims, stated on the schema and the answer map       *)
(* themselves (own entries only).                                          *)
(***************************************************************************)
\* Field i of the schema is required and the answer map has no entry, or
\* the empty string, for it.
Unanswered(formFields, answers, i) ==
    /\ "required" \in DOMAIN formFields[i].value
    /\ formFields[i].value.required = TRUE
    /\ \/ \A j \in DOMAIN answers : answers[j].key # formFields[i].key
       \/ \E j \in DOMAIN answers :
             answers[j].key = formFields[i].key /\ answers[j].value = ""

SomeUnanswered(formFields, answers) ==
    \E i \in DOMAIN formFields : Unanswered(formFields, answers, i)

FirstUnanswered(formFields, answers) ==
    CHOOSE i \in DOMAIN formFields :
        /\ Unanswered(formFields, answers, i)
        /\ \A k \in 1..(i - 1) : ~Unanswered(formFields, answers, k)

\* The keys of the answer map that the schema defines / does not define.
KnownKeys(formFields, answers) ==
    {answers[j].key : j \in DOMAIN answers} \cap
    {formFields[i].key : i \in DOMAIN formFields}

UnknownKeys(formFields, answers) ==
    {answers[j].key : j \in DOMAIN answers} \
    {formFields[i].key : i \in DOMAIN formFields}

\* This step is client c's create leaving the handler (reply sent).
CreateStep(c) == inflight[c].pc = "create" /\ inflight'[c] = Idle

TablesUnchanged == UNCHANGED <<forms, sourceRecords, sourceData>>

(***************************************************************************)
(* C1: whenever a required field of the schema has no entry or an empty    *)
(* entry in the answer map, the create fails with "Missing required        *)
(* field: " followed by the question of the first such field in schema     *)
(* order, and nothing is stored.                                           *)
(***************************************************************************)
C1_MissingRequiredRejected ==
    [][\A c \in Clients :
         (CreateStep(c) /\
          SomeUnanswered(inflight[c].formFields, inflight[c].body.sourceData))
         => LET formFields == inflight[c].formFields
                answers == inflight[c].body.sourceData
                first == FirstUnanswered(formFields, answers)
            IN  /\ reply'.status = 400
                /\ reply'.message =
                     "Missing required field: " \o formFields[first].value.question
                /\ TablesUnchanged]_vars

(***************************************************************************)
(* C2 (as claimed): whenever every required field has a non-empty entry,   *)
(* the create succeeds and emits as many pairs as the answer map has keys  *)
(* that are field ids of the schema, also when the map has other keys.     *)
(***************************************************************************)
C2_PairsForKnownKeys ==
    [][\A c \in Clients :
         (CreateStep(c) /\
          ~SomeUnanswered(inflight[c].formFields, inflight[c].body.sourceData))
         => /\ reply'.status = 201
            /\ Len(reply'.data.sourceData) =
                 Cardinality(KnownKeys(inflight[c].formFields,
                                       inflight[c].body.sourceData))]_vars

(***************************************************************************)
(* C2 (amended): whenever every required field has a non-empty entry and   *)
(* every key of the answer map is a field id of the schema, the create     *)
(* succeeds and emits as many pairs as the answer map has keys; when the   *)
(* map has a key the schema does not define, the create fails and emits    *)
(* no pair.                                                                *)
(***************************************************************************)
C2_PairsWhenAllKeysKnown ==
    [][\A c \in Clients :
         (CreateStep(c) /\
          ~SomeUnanswered(inflight[c].formFields, inflight[c].body.sourceData))
         => LET formFields == inflight[c].formFields
                answers == inflight[c].body.sourceData
            IN  IF UnknownKeys(formFields, answers) = {}
                THEN /\ reply'.status = 201
                     /\ Len(reply'.data.sourceData) = Len(answers)
                     /\ Len(sourceData') = Len(sourceData) + Len(answers)
                ELSE /\ reply'.status = 400
                     /\ sourceData' = sourceData]_vars

\* A create that succeeded with an optional field answered by "".
C2_Witness ==
    /\ reply.op = "postSourceRecord"
    /\ reply.status = 201
    /\ Len(reply.data.sourceData) = 2
    /\ \E i \in 1..2 : reply.data.sourceData[i].answer = ""

(***************************************************************************)
(* Views of the tables used by the claims below.                           *)
(***************************************************************************)
Stored(recs, id) == \E i \in DOMAIN recs : recs[i].id = id

\* The (question, answer) pairs stored for record id, in table order.
PairsOf(rows, id) ==
    LET Mine(row) == row.sourceRecordId = id
        sel == SelectSeq(rows, Mine)
    IN  [i \in DOMAIN sel |->
           [question |-> sel[i].question, answer |-> sel[i].answer]]

\* The (question, answer) pairs a reply carries for one record.
PairsIn(data) ==
    [i \in DOMAIN data.sourceData |->
       [question |-> data.sourceData[i].question,
        answer |-> data.sourceData[i].answer]]

(***************************************************************************)
(* C3: once a Submission is stored, it stays stored and its answer         *)
(* sequence (questions, answers, order), as getById returns it, is the     *)
(* same after every step, form updates included.                           *)
(***************************************************************************)
C3_SubmissionFrozen ==
    [][\A id \in RecordIdInputs :
         Stored(sourceRecords, id)
         => /\ Stored(sourceRecords', id)
            /\ \A i \in DOMAIN sourceRecords :
                  sourceRecords[i].id = id => sourceRecords'[i] = sourceRecords[i]
            /\ PairsOf(sourceData', id) = PairsOf(sourceData, id)]_vars

\* A stored Submission carries a question that the current schema of its
\* form no longer has, right after an update of that form.
C3_Witness ==
    /\ reply.op = "putForm"
    /\ reply.status = 200
    /\ \E i \in DOMAIN sourceRecords :
          /\ sourceRecords[i].formId = reply.req.id
          /\ \E k \in DOMAIN sourceData :
                /\ sourceData[k].sourceRecordId = sourceRecords[i].id
                /\ \A j \in DOMAIN reply.req.fields :
                      reply.req.fields[j].value.question # sourceData[k].question

(***************************************************************************)
(* C4: a successful create returns and stores one (question, answer) pair  *)
(* per entry of the answer map, in the order of the answer map, each with  *)
(* the question the stored schema has for that field id and the answer     *)
(* text as submitted.                                                      *)
(***************************************************************************)
C4_PairsInAnswerOrder ==
    [][\A c \in Clients :
         (CreateStep(c) /\ reply'.status = 201)
         => LET answers == inflight[c].body.sourceData
                schema == FindForm(inflight[c].body.formId).fields
                pairs == PairsIn(reply'.data)
            IN  /\ Len(pairs) = Len(answers)
                /\ \A i \in DOMAIN answers :
                      /\ pairs[i].answer = answers[i].value
                      /\ \E j \in DOMAIN schema :
                            /\ schema[j].key = answers[i].key
                            /\ schema[j].value.question = pairs[i].question
                /\ PairsOf(sourceData', reply'.data.id) = pairs]_vars

\* A create succeeded with two answers given in the reverse of the schema's
\* field order, the two fields having different questions.
C4_Witness ==
    /\ reply.op = "postSourceRecord"
    /\ reply.status = 201
    /\ Len(reply.req.sourceData) = 2
    /\ Len(forms[1].fields) = 2
    /\ forms[1].fields[1].key = reply.req.sourceData[2].key
    /\ forms[1].fields[2].key = reply.req.sourceData[1].key
    /\ forms[1].fields[1].value.question # forms[1].fields[2].value.question
    /\ reply.req.sourceData[1].value # reply.req.sourceData[2].value

(***************************************************************************)
(* C5: a Submission appears in one step together with one answer row per   *)
(* entry of its answer map, rows exist only for stored Submissions, a      *)
(* create that fails stores nothing, and every read returns each           *)
(* Submission with all the rows it has.                                    *)
(***************************************************************************)
C5_CreateAtomic ==
    [][/\ \A id \in RecordIdInputs :
            /\ (~Stored(sourceRecords, id) /\ Stored(sourceRecords', id))
               => \E c \in Clients :
                     /\ CreateStep(c)
                     /\ reply'.status = 201
                     /\ Len(PairsOf(sourceData', id)) =
                          Len(inflight[c].body.sourceData)
            /\ Stored(sourceRecords, id)
               => Len(PairsOf(sourceData', id)) = Len(PairsOf(sourceData, id))
       /\ \A k \in DOMAIN sourceData' :
            Stored(sourceRecords', sourceData'[k].sourceRecordId)
       /\ (\E c \in Clients : CreateStep(c)) /\ reply'.status = 400
            => TablesUnchanged
       /\ reply'.op = "getSourceRecord" /\ reply'.status = 200
            => PairsIn(reply'.data) = PairsOf(sourceData', reply'.data.id)
       /\ reply'.op = "getSourceRecords"
            => \A k \in DOMAIN reply'.data :
                  PairsIn(reply'.data[k]) = PairsOf(sourceData', reply'.data[k].id)
       /\ reply'.op = "getFormSourceRecord"
            => \A k \in DOMAIN reply'.data :
                  Stored(sourceRecords', reply'.data[k].id)]_vars

\* getById read a Submission that was created with two answers and returned
\* both.
C5_Witness ==
    /\ reply.op = "getSourceRecord"
    /\ reply.status = 200
    /\ Len(reply.data.sourceData) = 2
    /\ Len(sourceData) = 2

(***************************************************************************)
(* C6: a create for a formId that names no stored form fails with the      *)
(* error reply at the form lookup, whatever the answer map is: nothing     *)
(* is validated, no handler stays in flight for it and nothing is stored.  *)
(***************************************************************************)
C6_UnknownFormRejected ==
    [][/\ (reply'.op = "postSourceRecord" /\ ~FormExists(reply'.req.formId)
           /\ reply = NoReply)
            => /\ reply'.status = 400
               /\ reply'.message = "failed to create source record"
               /\ UNCHANGED <<forms, sourceRecords, sourceData, inflight>>
       /\ \A c \in Clients :
            inflight'[c].pc = "create"
               => \E i \in DOMAIN forms' :
                     forms'[i].id = inflight'[c].body.formId
       /\ \A i \in DOMAIN sourceRecords' :
            \E j \in DOMAIN forms' : forms'[j].id = sourceRecords'[i].formId]_vars

\* The create for a missing form was refused although its answer map is
\* not empty and another form with a schema exists.
C6_Witness ==
    /\ reply.op = "postSourceRecord"
    /\ reply.status = 400
    /\ ~FormExists(reply.req.formId)
    /\ reply.req.sourceData # <<>>
    /\ forms # <<>>
    /\ sourceRecords = <<>>

(***************************************************************************)
(* C7: when the answer map has a key that is no field id of the schema     *)
(* and every required field is answered, the create ends with the generic  *)
(* "failed to create source record" and stores neither a Submission nor    *)
(* any answer row.                                                         *)
(***************************************************************************)
C7_UnknownKeyGenericFailure ==
    [][\A c \in Clients :
         (/\ CreateStep(c)
          /\ ~SomeUnanswered(inflight[c].formFields, inflight[c].body.sourceData)
          /\ UnknownKeys(inflight[c].formFields, inflight[c].body.sourceData) # {})
         => /\ reply' = Throw("postSourceRecord", inflight[c].body,
                              "failed to create source record")
            /\ TablesUnchanged]_vars

\* The generic failure answered a map with one key the schema defines and
\* one it does not.
C7_Witness ==
    /\ reply.op = "postSourceRecord"
    /\ reply.status = 400
    /\ reply.message = "failed to create source record"
    /\ FormExists(reply.req.formId)
    /\ KnownKeys(FindForm(reply.req.formId).fields, reply.req.sourceData) # {}
    /\ UnknownKeys(FindForm(reply.req.formId).fields, reply.req.sourceData) # {}
    /\ sourceRecords = <<>>
    /\ sourceData = <<>>

C9_ListByForm ==
    reply.op = "getSourceRecords"
    => LET OfForm(rec) == rec.formId = reply.req
           mine == SelectSeq(sourceRecords, OfForm)
       IN  /\ reply.status = 200
           /\ Len(reply.data) = Len(mine)
           /\ \A k \in DOMAIN mine :
                 /\ reply.data[k].id = mine[k].id
                 /\ reply.data[k].formId = reply.req
                 /\ PairsIn(reply.data[k]) = PairsOf(sourceData, mine[k].id)

\* listByForm for an id that names no form returned the empty sequence
\* while a Submission of another form is stored.
C9_Witness ==
    /\ reply.op = "getSourceRecords"
    /\ reply.status = 200
    /\ ~FormExists(reply.req)
    /\ reply.data = <<>>
    /\ sourceRecords # <<>>

(***************************************************************************)
(* C10: update on a stored form leaves the table with the same ids, gives  *)
(* that form exactly the given name and the given field mapping and keeps  *)
(* every other form; on an id that names no form it fails and the table    *)
(* is as before.                                                           *)
(***************************************************************************)
C10_UpdateReplaces ==
    [][(reply = NoReply /\ reply'.op = "putForm")
         => LET r == reply'.req
            IN  IF FormExists(r.id)
                THEN /\ reply'.status = 200
                     /\ reply'.data =
                          [id |-> r.id, name |-> r.name, fields |-> r.fields]
                     /\ DOMAIN forms' = DOMAIN forms
                     /\ \A i \in DOMAIN forms :
                           forms'[i] =
                              IF forms[i].id = r.id
                              THEN [id |-> r.id, name |-> r.name,
                                    fields |-> r.fields]
                              ELSE forms[i]
                ELSE /\ reply'.status = 400
                     /\ reply'.message = "failed to update form"
                     /\ forms' = forms]_vars

\* An update replaced a two-field mapping by a one-field mapping while a
\* second form is stored.
C10_Witness ==
    /\ reply.op = "putForm"
    /\ reply.status = 200
    /\ Len(forms) = 2
    /\ Len(reply.data.fields) = 1
    /\ \E i \in DOMAIN forms :
          forms[i].id # reply.req.id /\ Len(forms[i].fields) = 2


\* The question schema formFields has for field id key.
QuestionOf(formFields, key) ==
    formFields[CHOOSE i \in DOMAIN formFields : formFields[i].key = key].value.question

\* Reply rep is the outcome of validating and materializing answer map
\* body.sourceData against schema formFields alone.
AgainstSchema(formFields, body, rep) ==
    LET answers == body.sourceData
    IN  IF SomeUnanswered(formFields, answers)
        THEN /\ rep.status = 400
             /\ rep.message = "Missing required field: " \o
                   formFields[FirstUnanswered(formFields, answers)].value.question
        ELSE IF UnknownKeys(formFields, answers) # {}
        THEN /\ rep.status = 400
             /\ rep.message = "failed to create source record"
        ELSE /\ rep.status = 201
             /\ PairsIn(rep.data) =
                   [i \in DOMAIN answers |->
                      [question |-> QuestionOf(formFields, answers[i].key),
                       answer |-> answers[i].value]]

(***************************************************************************)
(* C11: with one update of the form racing the creates on it, the schema   *)
(* a create holds between its read and its write is the pre-update schema  *)
(* or the stored (post-update) schema; the create's outcome, pairs         *)
(* included, is the outcome of validating and materializing its answer map *)
(* against that one schema; and the pairs of a stored Submission are the   *)
(* same after every later step, whichever schema is current.               *)
(***************************************************************************)
C11_RaceUsesPreOrPost ==
    [][/\ \A c \in RaceClients :
            /\ inflight[c].pc = "create"
               => inflight[c].formFields \in {RacePre, FindForm(1).fields}
            /\ CreateStep(c)
               => /\ AgainstSchema(inflight[c].formFields, inflight[c].body, reply')
                  /\ \/ AgainstSchema(RacePre, inflight[c].body, reply')
                     \/ AgainstSchema(FindForm(1).fields, inflight[c].body, reply')
       /\ \A id \in 1..MaxRaceRecords :
            Stored(sourceRecords, id)
            => /\ Stored(sourceRecords', id)
               /\ PairsOf(sourceData', id) = PairsOf(sourceData, id)]_vars

\* A create that read the form before the update completes after it: its
\* Submission has the pre-update questions, which the current schema would
\* not have given.
C11_Witness ==
    /\ reply.op = "postSourceRecord"
    /\ reply.status = 201
    /\ FindForm(1).fields # RacePre
    /\ AgainstSchema(RacePre, reply.req, reply)
    /\ ~AgainstSchema(FindForm(1).fields, reply.req, reply)
    /\ PairsOf(sourceData, reply.data.id) = PairsIn(reply.data)

(***************************************************************************)
(* C12: creates in flight together on one form do not affect each other.   *)
(* A step changes the locals of at most one of them; each create ends with *)
(* the outcome its own answer map has against the schema it read; a        *)
(* successful one stores a Submission under an id no stored Submission     *)
(* has, with exactly the pairs of its own answer map, and leaves the pairs *)
(* of every other Submission as they were.                                 *)
(***************************************************************************)
C12_CreatesIndependent ==
    [][/\ \A c, d \in RaceClients :
            c # d => (inflight'[c] = inflight[c] \/ inflight'[d] = inflight[d])
       /\ \A i, j \in DOMAIN sourceRecords' :
            i # j => sourceRecords'[i].id # sourceRecords'[j].id
       /\ \A c \in RaceClients :
            CreateStep(c)
            => LET body == inflight[c].body
               IN  /\ reply'.req = body
                   /\ AgainstSchema(inflight[c].formFields, body, reply')
                   /\ reply'.status = 201
                      => /\ ~Stored(sourceRecords, reply'.data.id)
                         /\ Stored(sourceRecords', reply'.data.id)
                         /\ PairsOf(sourceData', reply'.data.id) = PairsIn(reply'.data)
                         /\ Len(sourceData') = Len(sourceData) + Len(body.sourceData)
                         /\ \A id \in 1..MaxRaceRecords :
                               Stored(sourceRecords, id)
                               => PairsOf(sourceData', id) = PairsOf(sourceData, id)
                   /\ reply'.status # 201 => TablesUnchanged]_vars

\* The second of two Submissions has just been stored while another create
\* with a different answer map is still between its read and its write.
C12_Witness ==
    /\ reply.op = "postSourceRecord"
    /\ reply.status = 201
    /\ reply.data.id = 2
    /\ PairsOf(sourceData, 1) # PairsOf(sourceData, 2)
    /\ \E d \in RaceClients :
          /\ inflight[d].pc = "create"
          /\ inflight[d].body.sourceData # reply.req.sourceData

(***************************************************************************)
(* C13: a form create stores one new form under an id no stored form has   *)
(* and returns it with the name and the fields of the request (an empty    *)
(* mapping stays empty, a field without a required flag stays without      *)
(* one); no create or read changes a stored form, and a get returns the    *)
(* stored form of that id, or fails with 400 "failed to fetch form" when   *)
(* no form has the id.                                                     *)
(***************************************************************************)
C13_FormRoundTrip ==
    [][/\ (reply = NoReply /\ reply'.op = "postForm")
          => /\ reply'.status = 201
             /\ reply'.data.name = reply'.req.name
             /\ reply'.data.fields = reply'.req.fields
             /\ ~FormExists(reply'.data.id)
             /\ forms' = Append(forms, reply'.data)
       /\ (reply = NoReply /\ reply'.op = "getForm")
          => IF \E i \in DOMAIN forms : forms[i].id = reply'.req
             THEN /\ reply'.status = 200
                  /\ \E i \in DOMAIN forms :
                        forms[i].id = reply'.req /\ reply'.data = forms[i]
             ELSE /\ reply'.status = 400
                  /\ reply'.message = "failed to fetch form"
       /\ \A i \in DOMAIN forms : i \in DOMAIN forms' /\ forms'[i] = forms[i]]_vars

\* The second form, created with one field that has no required flag, is
\* read back as created; the first form has the empty mapping.
C13_Witness ==
    /\ reply.op = "getForm"
    /\ reply.status = 200
    /\ reply.req = 2
    /\ Len(forms) = 2
    /\ forms[1].fields = <<>>
    /\ Len(reply.data.fields) = 1
    /\ "required" \notin DOMAIN reply.data.fields[1].value

\* The error messages the catch block of each operation can produce.
ErrorMessages(op) ==
    CASE op = "getForms" -> {"failed to fetch forms"}
      [] op = "getForm" -> {"failed to fetch form"}
      [] op = "postForm" -> {"failed to create form"}
      [] op = "getFormSourceRecord" -> {"failed to fetch form source record"}
      [] op = "putForm" -> {"failed to update form"}
      [] op = "getSourceRecord" -> {"failed to fetch source record"}
      [] op = "getSourceRecords" -> {"failed to fetch source records"}
      [] op = "postSourceRecord" ->
           {"failed to create source record"} \cup
           {"Missing required field: " \o q : q \in Questions}

\* rep is one outcome: a success value or an error value, never both.
OneOutcome(rep) ==
    \/ /\ DOMAIN rep = {"op", "req", "status", "data"}
       /\ rep.status \in {200, 201}
    \/ /\ DOMAIN rep = {"op", "req", "status", "message"}
       /\ rep.status = 400
       /\ rep.message \in ErrorMessages(rep.op)

SubmissionIdsOf(formId) ==
    {sourceRecords[i].id :
        i \in {k \in DOMAIN sourceRecords : sourceRecords[k].formId = formId}}

OptionalSkipped(formFields, answers, i) ==
    /\ \/ "required" \notin DOMAIN formFields[i].value
       \/ formFields[i].value.required = FALSE
    /\ \A j \in DOMAIN answers : answers[j].key # formFields[i].key

(***************************************************************************)
(* C16: when the schema has a field without a required flag (or with the   *)
(* flag false) for which the answer map has no entry, every required field *)
(* is answered and every key of the answer map is a field id of the        *)
(* schema, then the create succeeds and the stored and returned pairs are  *)
(* exactly the pairs of the entries of the answer map, so none for the     *)
(* skipped field.                                                          *)
(***************************************************************************)
C16_OptionalFieldSkipped ==
    [][\A c \in Clients :
         LET formFields == inflight[c].formFields
             answers == inflight[c].body.sourceData
         IN  (/\ CreateStep(c)
              /\ \E i \in DOMAIN formFields : OptionalSkipped(formFields, answers, i)
              /\ ~SomeUnanswered(formFields, answers)
              /\ UnknownKeys(formFields, answers) = {})
             => /\ reply'.status = 201
                /\ PairsIn(reply'.data) =
                      [k \in DOMAIN answers |->
                         [question |-> QuestionOf(formFields, answers[k].key),
                          answer |-> answers[k].value]]
                /\ PairsOf(sourceData', reply'.data.id) = PairsIn(reply'.data)
                /\ Len(sourceData') = Len(sourceData) + Len(answers)]_vars

\* A Submission was stored for a form with a required field, answered, and
\* a field without a required flag, not answered: one pair.
C16_Witness ==
    /\ reply.op = "postSourceRecord"
    /\ reply.status = 201
    /\ Len(reply.data.sourceData) = 1
    /\ LET formFields == FindForm(reply.req.formId).fields
       IN  /\ \E i \in DOMAIN formFields :
                 /\ "required" \notin DOMAIN formFields[i].value
                 /\ OptionalSkipped(formFields, reply.req.sourceData, i)
           /\ \E i \in DOMAIN formFields : FieldRequired(formFields[i].value)

(***************************************************************************)
(* C17: a create reads the schema once: the schema it holds after the read *)
(* is the stored schema of its form at that step and stays the same until  *)
(* its write, whatever updates run in between; every question of a created *)
(* Submission is the question that one schema has for the field id of the  *)
(* entry; and that schema has no required field the answer map leaves      *)
(* unanswered.                                                             *)
(***************************************************************************)
C17_OneSnapshotSatisfied ==
    [][\A c \in DOMAIN inflight :
         /\ (inflight[c] = Idle /\ inflight'[c].pc = "create")
            => /\ UNCHANGED forms
               /\ inflight'[c].formFields = FindForm(inflight'[c].body.formId).fields
         /\ (inflight[c].pc = "create" /\ inflight'[c].pc = "create")
            => inflight'[c] = inflight[c]
         /\ (CreateStep(c) /\ reply'.status = 201)
            => LET formFields == inflight[c].formFields
                   answers == inflight[c].body.sourceData
                   pairs == PairsOf(sourceData', reply'.data.id)
               IN  /\ Len(pairs) = Len(answers)
                   /\ \A k \in DOMAIN answers :
                         pairs[k].question = QuestionOf(formFields, answers[k].key)
                   /\ ~SomeUnanswered(formFields, answers)]_vars

(***************************************************************************)
(* C18: no step removes a form or a Submission: a form id that resolves    *)
(* before a step resolves after it, a stored Submission is stored after    *)
(* the step with the same formId, and after every step the formId of every *)
(* stored Submission is the id of a stored form and every answer row       *)
(* belongs to a stored Submission.                                         *)
(***************************************************************************)
C18_ReferentialIntegrity ==
    [][/\ \A id \in FormIdInputs :
            FormExists(id) => \E i \in DOMAIN forms' : forms'[i].id = id
       /\ \A i \in DOMAIN sourceRecords :
            \E k \in DOMAIN sourceRecords' : sourceRecords'[k] = sourceRecords[i]
       /\ \A k \in DOMAIN sourceRecords' :
            \E i \in DOMAIN forms' : forms'[i].id = sourceRecords'[k].formId
       /\ \A k \in DOMAIN sourceData' :
            Stored(sourceRecords', sourceData'[k].sourceRecordId)]_vars

\* A form that has a Submission has just been updated: both are still
\* there, next to a second form.
C18_Witness ==
    /\ reply.op = "putForm"
    /\ reply.status = 200
    /\ Len(forms) = 2
    /\ \E k \in DOMAIN sourceRecords : sourceRecords[k].formId = reply.req.id
    /\ FormExists(reply.req.id)

(***************************************************************************)
(* C19: a step that ends an operation in an error (a create on an unknown  *)
(* form, with a missing required field or with an unknown field id; an     *)
(* update or get on an unknown form; a getById on an unknown Submission)   *)
(* leaves forms, Submissions and answer rows as they were, and so does the *)
(* form read that precedes the write step of a create.                     *)
(***************************************************************************)
C19_ErrorsWriteNothing ==
    [][/\ (/\ reply = NoReply
           /\ reply'.op \in {"postSourceRecord", "putForm", "getForm", "getSourceRecord"}
           /\ reply'.status = 400)
          => /\ forms' = forms
             /\ sourceRecords' = sourceRecords
             /\ sourceData' = sourceData
       /\ \A c \in Clients :
            (inflight[c] = Idle /\ inflight'[c] # Idle)
            => /\ forms' = forms
               /\ sourceRecords' = sourceRecords
               /\ sourceData' = sourceData]_vars

\* An update of a form id that no form has was rejected while a form and a
\* Submission are stored.
C19_Witness ==
    /\ reply.op = "putForm"
    /\ reply.status = 400
    /\ ~FormExists(reply.req.id)
    /\ forms # <<>>
    /\ sourceData # <<>>

====
